---- MODULE Spec2Model ----
(***************************************************************************)
(* A model of the JSON reader: lex (src/lexer.py) turns a text into a      *)
(* token list, parse (src/parser_.py) turns the token list into a Python   *)
(* value, load_json_string (src/__init__.py) composes the two.             *)
(*                                                                         *)
(* A text is a sequence of characters; a character is a string.  Offsets   *)
(* are Python's (0-based): At(text, i) is text[i].                         *)
(*                                                                         *)
(* A number is an exact decimal m * 10^x (a record [m, x], normalised so   *)
(* that equal numbers are equal records).  Python's binary floating point  *)
(* noise in the fractional part (0.3 read as 0.30000000000000004) is not   *)
(* modelled; the texts of the model keep exponents far below the float     *)
(* overflow at 1e309.                                                      *)
(***************************************************************************)
EXTENDS Integers, Sequences, FiniteSets, TLC

VARIABLES
    text,         \* lex's argument
    doc,          \* the document the text was written from (NoDoc: a raw text)
    i,            \* lex: the offset into text
    line_number,  \* lex: the line counter
    token_list,   \* lex: the tokens emitted so far
    pc,           \* "lex", "parse" or "done"
    outcome       \* what load_json_string returned or raised

vars == <<text, doc, i, line_number, token_list, pc, outcome>>

----------------------------------------------------------------------------
(* Characters *)

QUOTE == "\""
BACKSLASH == "\\"
NL == "\n"
TAB == "\t"
SPACE == " "
\* U+00BD, VULGAR FRACTION ONE HALF: a character for which str.isnumeric()
\* is True and int() raises ValueError.
HALF == "U+00BD"

AsciiDigits == {"0", "1", "2", "3", "4", "5", "6", "7", "8", "9"}

\* str.isspace()
IsSpace(c) == c \in {SPACE, TAB, NL, "\r", "\f"}

\* str.isnumeric(): the Unicode numeric characters, not only 0-9
IsNumeric(c) == c \in AsciiDigits \cup {HALF}

\* whether int(c) returns (it raises ValueError otherwise)
IntDefined(c) == c \in AsciiDigits

\* int(c)
IntOf(c) ==
    CASE c = "0" -> 0 [] c = "1" -> 1 [] c = "2" -> 2 [] c = "3" -> 3
      [] c = "4" -> 4 [] c = "5" -> 5 [] c = "6" -> 6 [] c = "7" -> 7
      [] c = "8" -> 8 [] c = "9" -> 9

\* str.lower()
Lower(c) ==
    CASE c = "A" -> "a" [] c = "B" -> "b" [] c = "C" -> "c" [] c = "D" -> "d"
      [] c = "E" -> "e" [] c = "F" -> "f" [] c = "G" -> "g"
      [] OTHER -> c

\* is_unicode(c): unicodedata.category(c) starts with "C"
is_unicode(c) == c \in {NL, TAB, "\r", "\f"}

HexLetters == {"a", "b", "c", "d", "e", "f", "A", "B", "C", "D", "E", "F"}

\* the escape characters without the quote: \" is no escape
EscapeChars_NoQuote == {BACKSLASH, "/", "b", "f", "n", "r", "t", "u"}

EscapeChars == {QUOTE, BACKSLASH, "/", "b", "f", "n", "r", "t", "u"}

\* text[k], with Python's negative index
At(t, k) == IF k < 0 THEN t[Len(t) + k + 1] ELSE t[k + 1]

\* text[a:b]
Slice(t, a, b) == SubSeq(t, a + 1, IF b > Len(t) THEN Len(t) ELSE b)

----------------------------------------------------------------------------
(* Numbers: exact decimals m * 10^x *)

RECURSIVE Pow10(_)
Pow10(k) == IF k <= 0 THEN 1 ELSE 10 * Pow10(k - 1)

RECURSIVE Normalize(_, _)
Normalize(m, x) ==
    IF m = 0 THEN [m |-> 0, x |-> 0]
    ELSE IF m % 10 = 0 THEN Normalize(m \div 10, x + 1)
    ELSE [m |-> m, x |-> x]

RECURSIVE NumDigits(_)
NumDigits(m) == IF m < 10 THEN 1 ELSE 1 + NumDigits(m \div 10)

round_off_digit == 15

\* round(v, round_off_digit) of a non-negative decimal: to the nearest
\* multiple of 10^-15, a tie to the even one
Round(m, x) ==
    IF x >= -round_off_digit THEN [m |-> m, x |-> x]
    ELSE LET d == (-round_off_digit) - x
         IN IF d > NumDigits(m) THEN [m |-> 0, x |-> 0]
            ELSE LET p == Pow10(d)
                     q == m \div p
                     r == m % p
                     up == (2 * r > p) \/ (2 * r = p /\ q % 2 = 1)
                 IN [m |-> IF up THEN q + 1 ELSE q, x |-> -round_off_digit]

\* v * (-1 if v_is_negative else 1)
ApplySign(v, v_is_negative) ==
    IF v_is_negative THEN [m |-> -v.m, x |-> v.x] ELSE v

----------------------------------------------------------------------------
(* Tokens and Python values *)

PyNone == [type |-> "NoneType"]
PyBool(b) == [type |-> "bool", b |-> b]
PyNumber(v) == [type |-> "number", m |-> v.m, x |-> v.x]
PyStr(s) == [type |-> "str", s |-> s]
PyList(items) == [type |-> "list", items |-> items]
PyDict(items) == [type |-> "dict", items |-> items]

Token(tag) == [tag |-> tag]
Number(v) == [tag |-> "NUMBER", value |-> PyNumber(v)]
Literal(lexeme) == [tag |-> "LITERAL", lexeme |-> lexeme]
ObjectKey(lexeme) == [tag |-> "OBJECT_KEY", lexeme |-> lexeme]
Boolean(b) == [tag |-> "BOOLEAN", value |-> PyBool(b)]

----------------------------------------------------------------------------
(* lex: one iteration of its while loop *)

\* the iteration ended in a continue: the new offset and line, the tokens appended
Continue(ni, ln, emit) ==
    [kind |-> "continue", i |-> ni, line_number |-> ln, emit |-> emit]

\* the iteration raised: TokenError(text[ck], line_number), or the
\* ValueError of int(); at is the offset i when it was raised, character_at
\* the offset of the character reported
Raise(exc, t, ck, ln, at) ==
    [kind |-> "raise", exc |-> exc, character |-> At(t, ck),
     character_at |-> IF ck < 0 THEN Len(t) + ck ELSE ck,
     line_number |-> ln, at |-> at]

\* while i < n and text[i].isnumeric(): v *= 10; v += int(text[i]); i += 1
RECURSIVE ScanInt(_, _, _)
ScanInt(t, k, v) ==
    IF k < Len(t) /\ IsNumeric(At(t, k))
    THEN IF IntDefined(At(t, k))
         THEN ScanInt(t, k + 1, v * 10 + IntOf(At(t, k)))
         ELSE [ok |-> FALSE, i |-> k, v |-> v]
    ELSE [ok |-> TRUE, i |-> k, v |-> v]

\* while i < n and text[i].isnumeric(): mantissa += int(text[i]) * 10**e;
\* e -= 1; i += 1.  The mantissa is digits * 10^-count.
RECURSIVE ScanFraction(_, _, _, _)
ScanFraction(t, k, digits, count) ==
    IF k < Len(t) /\ IsNumeric(At(t, k))
    THEN IF IntDefined(At(t, k))
         THEN ScanFraction(t, k + 1, digits * 10 + IntOf(At(t, k)), count + 1)
         ELSE [ok |-> FALSE, i |-> k, digits |-> digits, count |-> count]
    ELSE [ok |-> TRUE, i |-> k, digits |-> digits, count |-> count]

\* the step past the character that follows the exponent
AfterExponent(k) == k + 1

\* scientific notation: k is the offset after the e, v the value so far
LexExponent(t, k, v, v_is_negative, ln) ==
    IF k >= Len(t) THEN Raise("TokenError", t, k - 1, ln, k)
    ELSE LET e_is_negative == At(t, k) = "-"
             signed == At(t, k) \in {"-", "+"}
             k2 == IF signed THEN k + 1 ELSE k
         IN IF ~signed /\ ~IsNumeric(At(t, k))
            THEN Raise("TokenError", t, k, ln, k)
            ELSE IF k2 >= Len(t)
            THEN Raise("TokenError", t, k2 - 1, ln, k2)
            ELSE LET ep == ScanInt(t, k2, 0)
                     e == IF e_is_negative THEN -ep.v ELSE ep.v
                     scaled == IF e # 0 THEN Round(v.m, v.x + e)
                               ELSE [m |-> v.m, x |-> v.x]
                 IN IF ~ep.ok
                    THEN Raise("ValueError", t, ep.i, ln, ep.i)
                    ELSE Continue(AfterExponent(ep.i), ln,
                             <<Number(ApplySign(Normalize(scaled.m, scaled.x),
                                                v_is_negative))>>)

\* the marker compared without lower(): E is no marker
IsExponentMarker_CaseSensitive(c) == c = "e"

\* whether the character is the exponent marker
IsExponentMarker(c) == Lower(c) = "e"

\* check for number: k is the offset of the first digit
LexNumber(t, k, v_is_negative, ln) ==
    LET ip == ScanInt(t, k, 0)
    IN IF ~ip.ok THEN Raise("ValueError", t, ip.i, ln, ip.i)
       ELSE IF ip.i >= Len(t)
               \/ ~(At(t, ip.i) = "." \/ IsExponentMarker(At(t, ip.i)))
       THEN Continue(ip.i, ln,
                <<Number(ApplySign(Normalize(ip.v, 0), v_is_negative))>>)
       ELSE LET fp == IF At(t, ip.i) = "."
                      THEN ScanFraction(t, ip.i + 1, 0, 0)
                      ELSE [ok |-> TRUE, i |-> ip.i, digits |-> 0, count |-> 0]
                v == [m |-> ip.v * Pow10(fp.count) + fp.digits, x |-> -fp.count]
            IN IF ~fp.ok THEN Raise("ValueError", t, fp.i, ln, fp.i)
               ELSE IF fp.i >= Len(t) \/ ~IsExponentMarker(At(t, fp.i))
               THEN Continue(fp.i, ln,
                        <<Number(ApplySign(Normalize(v.m, v.x), v_is_negative))>>)
               ELSE LexExponent(t, fp.i + 1, v, v_is_negative, ln)

\* for _ in range(4): i += 1; the character must be a hex digit.
\* k is the offset of the u, done the number of digits read.
RECURSIVE HexLoop(_, _, _)
HexLoop(t, k, done) ==
    IF done = 4 THEN [ok |-> TRUE, i |-> k]
    ELSE IF ~(IsNumeric(At(t, k + 1)) \/ At(t, k + 1) \in HexLetters)
    THEN [ok |-> FALSE, i |-> k + 1]
    ELSE HexLoop(t, k + 1, done + 1)

\* the closing quote at offset k: object key or literal
CloseString(t, k, buffer, ln) ==
    IF k + 1 < Len(t) /\ At(t, k + 1) = ":"
    THEN Continue(k + 2, ln, <<ObjectKey(buffer)>>)
    ELSE Continue(k + 1, ln, <<Literal(buffer)>>)

\* check for string literal / object key: one iteration of the inner loop,
\* entered with the offset k0 of the character read before
RECURSIVE StringLoop(_, _, _, _)
StringLoop(t, k0, buffer, ln) ==
    LET k == k0 + 1
    IN IF k >= Len(t) THEN Raise("TokenError", t, k - 1, ln, k)
       ELSE IF At(t, k) = QUOTE THEN CloseString(t, k, buffer, ln)
       ELSE IF At(t, k) = BACKSLASH
       THEN IF k + 1 >= Len(t) THEN Raise("TokenError", t, k, ln, k)
            ELSE IF At(t, k + 1) \notin EscapeChars
            THEN Raise("TokenError", t, k + 1, ln, k)
            ELSE IF At(t, k + 1) # "u"
            THEN StringLoop(t, k + 1, buffer \o Slice(t, k, k + 2), ln)
            ELSE IF k + 5 >= Len(t) THEN Raise("TokenError", t, k, ln, k)
            ELSE LET h == HexLoop(t, k + 1, 0)
                 IN IF ~h.ok THEN Raise("TokenError", t, h.i, ln, h.i)
                    ELSE StringLoop(t, h.i,
                             buffer \o <<At(t, k), "u">> \o Slice(t, k + 2, k + 6),
                             ln)
       ELSE IF is_unicode(At(t, k)) THEN Raise("TokenError", t, k, ln, k)
       ELSE StringLoop(t, k, buffer \o <<At(t, k)>>, ln)

\* the checks after the number check, at offset k
LexOther(t, k, ln) ==
    LET c == At(t, k)
    IN IF c = "t" /\ k + 3 >= Len(t) THEN Raise("TokenError", t, k, ln, k)
       ELSE IF c = "t" /\ Slice(t, k, k + 4) = <<"t", "r", "u", "e">>
       THEN Continue(k + 4, ln, <<Boolean(TRUE)>>)
       ELSE IF c = "f" /\ k + 4 >= Len(t) THEN Raise("TokenError", t, k, ln, k)
       ELSE IF c = "f" /\ Slice(t, k, k + 5) = <<"f", "a", "l", "s", "e">>
       THEN Continue(k + 5, ln, <<Boolean(FALSE)>>)
       ELSE IF c = "," THEN Continue(k + 1, ln, <<Token("COMMA")>>)
       ELSE IF c \in {"[", "]"}
       THEN Continue(k + 1, ln,
                <<Token(IF c = "[" THEN "LEFT_BRACKET" ELSE "RIGHT_BRACKET")>>)
       ELSE IF c \in {"{", "}"}
       THEN Continue(k + 1, ln,
                <<Token(IF c = "{" THEN "LEFT_BRACE" ELSE "RIGHT_BRACE")>>)
       ELSE IF c = QUOTE THEN StringLoop(t, k, <<>>, ln)
       ELSE IF c = "n" /\ k + 3 >= Len(t) THEN Raise("TokenError", t, k, ln, k)
       ELSE IF c = "n" /\ Slice(t, k, k + 4) # <<"n", "u", "l", "l">>
       THEN Raise("TokenError", t, k, ln, k)
       ELSE IF c = "n" THEN Continue(k + 4, ln, <<Token("NULL")>>)
       ELSE Raise("TokenError", t, k - 1, ln, k)

\* one iteration of while i < n, at offset k < n
LexIteration(t, k, ln) ==
    IF IsSpace(At(t, k))
    THEN Continue(k + 1, IF At(t, k) = NL THEN ln + 1 ELSE ln, <<>>)
    ELSE LET v_is_negative == At(t, k) = "-"
             k1 == IF v_is_negative THEN k + 1 ELSE k
         IN IF v_is_negative /\ k1 >= Len(t)
            THEN Raise("TokenError", t, k1 - 1, ln, k1)
            ELSE IF IsNumeric(At(t, k1))
            THEN LexNumber(t, k1, v_is_negative, ln)
            ELSE LexOther(t, k1, ln)

----------------------------------------------------------------------------
(* parse: recursive descent over the reversed token list *)

\* a function returned: its value and the tokens left
Return(value, tokens) == [kind |-> "return", value |-> value, tokens |-> tokens]

\* ParseError(token, expected)
RaiseParseError(t, expected) ==
    [kind |-> "raise", exc |-> "ParseError", token |-> t, expected |-> expected]

\* tokens.pop() or tokens[-1] of the empty list
RaiseIndexError == [kind |-> "raise", exc |-> "IndexError"]

\* tokens[::-1]
RECURSIVE Reverse(_)
Reverse(s) == IF s = <<>> THEN <<>> ELSE Reverse(Tail(s)) \o <<Head(s)>>

\* tokens[-1]
Last(tokens) == tokens[Len(tokens)]

\* the list after tokens.pop()
Popped(tokens) == SubSeq(tokens, 1, Len(tokens) - 1)

RECURSIVE DictIndex(_, _, _)
DictIndex(items, key, k) ==
    IF k > Len(items) THEN 0
    ELSE IF items[k].key = key THEN k
    ELSE DictIndex(items, key, k + 1)

\* the pairs kept as a list: a repeated key is stored twice
DictSet_Append(items, key, value) ==
    Append(items, [key |-> key, value |-> value])

\* result[key] = value on a dict (insertion-ordered): a key already there
\* keeps its place and takes the new value
DictSet(items, key, value) ==
    LET k == DictIndex(items, key, 1)
    IN IF k = 0 THEN Append(items, [key |-> key, value |-> value])
       ELSE [items EXCEPT ![k] = [key |-> key, value |-> value]]

RECURSIVE structure(_), array_loop(_, _), object_loop(_, _), value(_)

\* def array(tokens)
array(tokens) ==
    IF tokens = <<>> THEN RaiseIndexError
    ELSE LET t == Last(tokens)
             rest == Popped(tokens)
         IN IF t.tag # "LEFT_BRACKET" THEN RaiseParseError(t, <<"LEFT_BRACKET">>)
            ELSE IF rest = <<>> THEN RaiseIndexError
            ELSE IF Last(rest).tag = "RIGHT_BRACKET"
            THEN Return(PyList(<<>>), Popped(rest))
            ELSE array_loop(rest, <<>>)

\* array's while True loop, and the check after it
array_loop(tokens, result) ==
    LET v == value(tokens)
    IN IF v.kind = "raise" THEN v
       ELSE IF v.tokens = <<>> THEN RaiseIndexError
       ELSE LET t == Last(v.tokens)
                rest == Popped(v.tokens)
                appended == Append(result, v.value)
            IN IF t.tag = "COMMA" THEN array_loop(rest, appended)
               ELSE IF t.tag # "RIGHT_BRACKET"
               THEN RaiseParseError(t, <<"RIGHT_BRACKET">>)
               ELSE Return(PyList(appended), rest)

\* def object_(tokens)
object_(tokens) ==
    IF tokens = <<>> THEN RaiseIndexError
    ELSE LET t == Last(tokens)
             rest == Popped(tokens)
         IN IF t.tag # "LEFT_BRACE" THEN RaiseParseError(t, <<"LEFT_BRACE">>)
            ELSE IF rest = <<>> THEN RaiseIndexError
            ELSE IF Last(rest).tag = "RIGHT_BRACE"
            THEN Return(PyDict(<<>>), Popped(rest))
            ELSE object_loop(rest, <<>>)

\* object_'s while True loop, and the check after it
object_loop(tokens, result) ==
    IF tokens = <<>> THEN RaiseIndexError
    ELSE LET key == Last(tokens)
         IN IF key.tag # "OBJECT_KEY" THEN RaiseParseError(key, <<"OBJECT_KEY">>)
            ELSE LET v == value(Popped(tokens))
                 IN IF v.kind = "raise" THEN v
                    ELSE IF v.tokens = <<>> THEN RaiseIndexError
                    ELSE LET t == Last(v.tokens)
                             rest == Popped(v.tokens)
                             assigned == DictSet(result, key.lexeme, v.value)
                         IN IF t.tag = "COMMA" THEN object_loop(rest, assigned)
                            ELSE IF t.tag # "RIGHT_BRACE"
                            THEN RaiseParseError(t, <<"RIGHT_BRACE">>)
                            ELSE Return(PyDict(assigned), rest)

\* def structure(tokens)
structure(tokens) ==
    IF tokens = <<>> THEN RaiseIndexError
    ELSE LET t == Last(tokens)
         IN IF t.tag \notin {"LEFT_BRACKET", "LEFT_BRACE"}
            THEN RaiseParseError(t, <<"LEFT_BRACKET", "LEFT_BRACE">>)
            ELSE IF t.tag = "LEFT_BRACKET" THEN array(tokens)
            ELSE object_(tokens)

\* def value(tokens)
value(tokens) ==
    IF tokens = <<>> THEN RaiseIndexError
    ELSE LET t == Last(tokens)
             rest == Popped(tokens)
         IN IF t.tag \in {"LEFT_BRACKET", "LEFT_BRACE"}
            THEN structure(Append(rest, t))
            ELSE IF t.tag = "LITERAL" THEN Return(PyStr(t.lexeme), rest)
            ELSE IF t.tag \in {"NUMBER", "BOOLEAN"} THEN Return(t.value, rest)
            ELSE IF t.tag = "NULL" THEN Return(PyNone, rest)
            ELSE RaiseParseError(t, <<"LEFT_BRACKET", "LEFT_BRACE", "LITERAL",
                                      "NUMBER", "BOOLEAN", "NULL">>)

\* parse without its check for the empty token list
parse_Unguarded(tokens) == structure(Reverse(tokens))

\* parse requiring that the top-level structure uses up the token list
parse_Strict(tokens) ==
    IF tokens = <<>> THEN Return(PyNone, <<>>)
    ELSE LET r == structure(Reverse(tokens))
         IN IF r.kind = "return" /\ r.tokens # <<>>
            THEN RaiseParseError(Last(r.tokens), <<>>)
            ELSE r

\* def parse(tokens)
parse(tokens) ==
    IF tokens = <<>> THEN Return(PyNone, <<>>)
    ELSE structure(Reverse(tokens))

\* what load_json_string returns
Returned(v) == [kind |-> "return", value |-> v]

\* def lex(text): the while loop from offset k on
RECURSIVE lex_loop(_, _, _, _)
lex_loop(t, k, ln, tokens) ==
    IF k >= Len(t) THEN Returned(tokens)
    ELSE LET r == LexIteration(t, k, ln)
         IN IF r.kind = "raise" THEN r
            ELSE lex_loop(t, r.i, r.line_number, tokens \o r.emit)

lex(t) == lex_loop(t, 0, 1, <<>>)

\* parse's result as its caller sees it: the value, or the exception
ParseOutcome(tokens) ==
    LET r == parse(tokens)
    IN IF r.kind = "return" THEN Returned(r.value) ELSE r

\* def load_json_string(json): return parse(lex(json))
load_json_string(t) ==
    LET l == lex(t)
    IN IF l.kind = "raise" THEN l ELSE ParseOutcome(l.value)

----------------------------------------------------------------------------
(* load_json_string as a state machine: lex's loop, then parse *)

NoOutcome == [kind |-> "none"]
NoDoc == [t |-> "raw"]

\* the state on entry to lex
Start(t, d) ==
    /\ text = t
    /\ doc = d
    /\ i = 0
    /\ line_number = 1
    /\ token_list = <<>>
    /\ pc = "lex"
    /\ outcome = NoOutcome

\* one iteration of lex's while i < n loop
LexStep ==
    /\ pc = "lex"
    /\ i < Len(text)
    /\ LET r == LexIteration(text, i, line_number)
       IN IF r.kind = "continue"
          THEN /\ i' = r.i
               /\ line_number' = r.line_number
               /\ token_list' = token_list \o r.emit
               /\ UNCHANGED <<pc, outcome>>
          ELSE /\ pc' = "done"
               /\ outcome' = r
               /\ UNCHANGED <<i, line_number, token_list>>
    /\ UNCHANGED <<text, doc>>

\* lex's loop ends and it returns token_list
LexReturn ==
    /\ pc = "lex"
    /\ i >= Len(text)
    /\ pc' = "parse"
    /\ UNCHANGED <<text, doc, i, line_number, token_list, outcome>>

\* parse(lex(json)), and load_json_string returns or raises
Parse ==
    /\ pc = "parse"
    /\ pc' = "done"
    /\ outcome' = ParseOutcome(token_list)
    /\ UNCHANGED <<text, doc, i, line_number, token_list>>

Next == LexStep \/ LexReturn \/ Parse

----------------------------------------------------------------------------
(* The texts load_json_string is run on *)

SeqsUpTo(A, n) == UNION {[1..k -> A] : k \in 0..n}

RECURSIVE Flatten(_)
Flatten(pieces) ==
    IF pieces = <<>> THEN <<>> ELSE Head(pieces) \o Flatten(Tail(pieces))

(* Raw texts: every character sequence up to MaxLen over RawChars *)
MaxLen == 5
RawChars == {"1", "e", "+", "-", ".", "x", NL, "[", "{", ","}
RawTexts == SeqsUpTo(RawChars, MaxLen)

InitRaw == \E t \in RawTexts : Start(t, NoDoc)

(* Blank texts: whitespace, and one character that is none *)
MaxBlankLen == 4
BlankChars == {SPACE, TAB, NL, "["}
BlankTexts == SeqsUpTo(BlankChars, MaxBlankLen)

InitBlank == \E t \in BlankTexts : Start(t, NoDoc)

(* Number texts: [-] digits [ (e|E) [+|-] digits ] *)
MaxIntDigits == 3
MaxExpDigits == 2
IntDigitChars == {"1", "2", "3"}
ExpDigitChars == {"0", "2"}
NumberDocs ==
    LET ints == SeqsUpTo(IntDigitChars, MaxIntDigits) \ {<<>>}
        exps == SeqsUpTo(ExpDigitChars, MaxExpDigits) \ {<<>>}
    IN [t : {"number"}, neg : BOOLEAN, int : ints,
        marker : {<<>>}, esign : {<<>>}, exp : {<<>>}]
       \cup
       [t : {"number"}, neg : BOOLEAN, int : ints,
        marker : {<<"e">>, <<"E">>}, esign : {<<>>, <<"+">>, <<"-">>}, exp : exps]

NumberText(d) ==
    (IF d.neg THEN <<"-">> ELSE <<>>) \o d.int \o d.marker \o d.esign \o d.exp

InitNumber == \E d \in NumberDocs : Start(NumberText(d), d)

(* JSON documents, as trees *)
NumDoc(lexeme, m, x) ==
    [t |-> "number", lexeme |-> lexeme, value |-> [m |-> m, x |-> x]]
StrDoc(chars) == [t |-> "string", chars |-> chars]
ArrDoc(items) == [t |-> "array", items |-> items]
ObjDoc(members) == [t |-> "object", members |-> members]

One == NumDoc(<<"1">>, 1, 0)
Two == NumDoc(<<"2">>, 2, 0)
Hundred == NumDoc(<<"1", "e", "2">>, 1, 2)
Keys == {<<"a">>, <<"b">>}

\* the lexemes of a document, in source order; the colon is a piece of its own
RECURSIVE Pieces(_), ItemPieces(_, _), MemberPieces(_, _)
Pieces(d) ==
    CASE d.t = "number" -> <<d.lexeme>>
      [] d.t = "string" -> <<<<QUOTE>> \o d.chars \o <<QUOTE>>>>
      [] d.t = "array" -> <<<<"[">>>> \o ItemPieces(d.items, 1) \o <<<<"]">>>>
      [] d.t = "object" -> <<<<"{">>>> \o MemberPieces(d.members, 1) \o <<<<"}">>>>

ItemPieces(items, k) ==
    IF k > Len(items) THEN <<>>
    ELSE (IF k > 1 THEN <<<<",">>>> ELSE <<>>)
         \o Pieces(items[k]) \o ItemPieces(items, k + 1)

MemberPieces(members, k) ==
    IF k > Len(members) THEN <<>>
    ELSE (IF k > 1 THEN <<<<",">>>> ELSE <<>>)
         \o <<<<QUOTE>> \o members[k].key \o <<QUOTE>>, <<":">>>>
         \o Pieces(members[k].value) \o MemberPieces(members, k + 1)

\* a run of whitespace after the piece numbered after (0: none anywhere)
NoGap == [after |-> 0, ws |-> <<>>]
WhitespaceRuns == {<<SPACE>>, <<NL>>, <<NL, TAB>>}
Gaps(pieces) ==
    {NoGap} \cup [after : 1..(Len(pieces) - 1), ws : WhitespaceRuns]

DocText(tree, gap) ==
    LET pieces == Pieces(tree)
    IN Flatten([k \in 1..Len(pieces) |->
                  IF k = gap.after THEN pieces[k] \o gap.ws ELSE pieces[k]])

(* Documents: arrays and objects of scalars and of small arrays and objects *)
MaxElems == 2
MaxMembers == 2
DocValues ==
    {One, Hundred, StrDoc(<<"s">>),
     ArrDoc(<<>>), ObjDoc(<<>>), ArrDoc(<<One>>),
     ObjDoc(<<[key |-> <<"a">>, value |-> One]>>)}
Documents ==
    {ArrDoc(s) : s \in SeqsUpTo(DocValues, MaxElems)}
    \cup {ObjDoc(s) : s \in SeqsUpTo([key : Keys, value : DocValues], MaxMembers)}

InitDocument ==
    \E tree \in Documents : \E gap \in Gaps(Pieces(tree)) :
        Start(DocText(tree, gap), [tree |-> tree, gap |-> gap])

(* Objects whose keys may repeat *)
MaxObjMembers == 3
ObjValues == {One, Two, ArrDoc(<<>>)}
Objects ==
    {ObjDoc(s) : s \in SeqsUpTo([key : Keys, value : ObjValues], MaxObjMembers)}

InitObject ==
    \E tree \in Objects : Start(DocText(tree, NoGap), [tree |-> tree, gap |-> NoGap])

(* Quoted strings: an opening quote, items, and a closing quote or none *)
MaxItems == 2
HexTailChars == {"1", HALF}
StringItems ==
    {<<"z">>, <<NL>>, <<BACKSLASH>>, <<BACKSLASH, "n">>, <<BACKSLASH, "x">>,
     <<BACKSLASH, QUOTE>>}
    \cup {<<BACKSLASH, "u">> \o h : h \in SeqsUpTo(HexTailChars, 4)}
StringTexts ==
    {<<QUOTE>> \o Flatten(items) \o close :
        items \in SeqsUpTo(StringItems, MaxItems), close \in {<<>>, <<QUOTE>>}}

InitString == \E t \in StringTexts : Start(t, NoDoc)

(* Texts of number lexemes separated by whitespace *)
MaxLexemes == 2
LexemeInts == {<<"1">>, <<"1", "2">>}
LexemeFractions == {<<>>, <<"5">>}
LexemeExponents ==
    {[marker |-> <<>>, esign |-> <<>>, exp |-> <<>>],
     [marker |-> <<"e">>, esign |-> <<>>, exp |-> <<"2">>],
     [marker |-> <<"E">>, esign |-> <<"+">>, exp |-> <<"2">>],
     [marker |-> <<"e">>, esign |-> <<"-">>, exp |-> <<"2">>],
     [marker |-> <<"E">>, esign |-> <<"-">>, exp |-> <<"2", "0">>]}
NumLexemes ==
    [neg : BOOLEAN, int : LexemeInts, frac : LexemeFractions,
     exponent : LexemeExponents]
Separators == {<<SPACE>>, <<NL>>, <<SPACE, TAB>>}

LexemeText(l) ==
    (IF l.neg THEN <<"-">> ELSE <<>>) \o l.int
    \o (IF l.frac = <<>> THEN <<>> ELSE <<".">> \o l.frac)
    \o l.exponent.marker \o l.exponent.esign \o l.exponent.exp

NumbersText(lexemes, sep) ==
    Flatten([k \in 1..Len(lexemes) |->
               (IF k > 1 THEN sep ELSE <<>>) \o LexemeText(lexemes[k])])

InitNumbers ==
    \E lexemes \in SeqsUpTo(NumLexemes, MaxLexemes) \ {<<>>} :
        \E sep \in Separators :
            Start(NumbersText(lexemes, sep),
                  [t |-> "numbers", lexemes |-> lexemes, sep |-> sep])

(* Well-formed quoted strings, and what follows the closing quote *)
MaxLitItems == 3
LiteralItems ==
    {<<"z">>, <<SPACE>>, <<BACKSLASH, QUOTE>>, <<BACKSLASH, BACKSLASH>>,
     <<BACKSLASH, "/">>, <<BACKSLASH, "b">>, <<BACKSLASH, "n">>,
     <<BACKSLASH, "u", "0", "F", "9", "a">>,
     <<BACKSLASH, "u", "1", "2", "3", "4">>}
LiteralSuffixes == {<<>>, <<":">>, <<",">>, <<NL>>}

InitLiteral ==
    \E items \in SeqsUpTo(LiteralItems, MaxLitItems) :
        \E suffix \in LiteralSuffixes :
            Start(<<QUOTE>> \o Flatten(items) \o <<QUOTE>> \o suffix,
                  [t |-> "literal", items |-> items, suffix |-> suffix])

(* Keywords, cut short or with one character replaced, after a prefix *)
MaxPrefix == 2
PrefixChars == {SPACE, NL, "["}
Keywords == {<<"t", "r", "u", "e">>, <<"f", "a", "l", "s", "e">>,
             <<"n", "u", "l", "l">>}
KeywordBodies ==
    Keywords
    \cup {SubSeq(w, 1, k) : w \in Keywords, k \in 1..4}
    \cup UNION {{[w EXCEPT ![k] = "x"] : k \in 2..Len(w)} : w \in Keywords}
KeywordTails == {<<>>, <<"]">>}

InitKeyword ==
    \E prefix \in SeqsUpTo(PrefixChars, MaxPrefix) :
        \E body \in KeywordBodies : \E tail \in KeywordTails :
            Start(prefix \o body \o tail,
                  [t |-> "keyword", prefix |-> prefix, body |-> body,
                   tail |-> tail])

(* Token sequences: texts written lexeme by lexeme *)
MaxTokens == 4
TokenLexemes ==
    {<<"[">>, <<"]">>, <<"{">>, <<"}">>, <<",">>, <<"1">>, <<QUOTE, "a", QUOTE, ":">>}

InitTokens ==
    \E lexemes \in SeqsUpTo(TokenLexemes, MaxTokens) :
        Start(Flatten(lexemes), [t |-> "tokens", lexemes |-> lexemes])

(* A complete array or object, and lexemes written after it *)
MaxTrailing == 3
StructureDocs ==
    {ArrDoc(<<>>), ArrDoc(<<One>>), ArrDoc(<<Two, ArrDoc(<<>>)>>),
     ObjDoc(<<>>), ObjDoc(<<[key |-> <<"a">>, value |-> One]>>),
     ObjDoc(<<[key |-> <<"a">>, value |-> ArrDoc(<<One>>)],
              [key |-> <<"b">>, value |-> Two]>>)}

InitTrailing ==
    \E tree \in StructureDocs :
        \E trailing \in SeqsUpTo(TokenLexemes, MaxTrailing) :
            Start(DocText(tree, NoGap) \o Flatten(trailing),
                  [t |-> "trailing", tree |-> tree, gap |-> NoGap,
                   trailing |-> trailing])

----------------------------------------------------------------------------
(* Specifications *)

Spec == InitRaw /\ [][Next]_vars
SpecBlank == InitBlank /\ [][Next]_vars
SpecNumber == InitNumber /\ [][Next]_vars
SpecDocument == InitDocument /\ [][Next]_vars
SpecObject == InitObject /\ [][Next]_vars
SpecString == InitString /\ [][Next]_vars
SpecNumbers == InitNumbers /\ [][Next]_vars
SpecLiteral == InitLiteral /\ [][Next]_vars
SpecKeyword == InitKeyword /\ [][Next]_vars
SpecTokens == InitTokens /\ [][Next]_vars
SpecTrailing == InitTrailing /\ [][Next]_vars

----------------------------------------------------------------------------
(* What the documents and texts mean, independently of lex and parse *)

\* the keys of an object's members, each once, in the order of first appearance
RECURSIVE FirstKeys(_, _)
FirstKeys(members, k) ==
    IF k > Len(members) THEN <<>>
    ELSE (IF \E j \in 1..(k - 1) : members[j].key = members[k].key
          THEN <<>> ELSE <<members[k].key>>)
         \o FirstKeys(members, k + 1)

\* the last member with the key
LastOccurrence(members, key) ==
    members[CHOOSE j \in 1..Len(members) :
                /\ members[j].key = key
                /\ \A h \in (j + 1)..Len(members) : members[h].key # key]

\* the value a document denotes
RECURSIVE RefValue(_)
RefValue(d) ==
    CASE d.t = "number" -> PyNumber(d.value)
      [] d.t = "string" -> PyStr(d.chars)
      [] d.t = "array" -> PyList([k \in 1..Len(d.items) |-> RefValue(d.items[k])])
      [] d.t = "object" ->
            LET keys == FirstKeys(d.members, 1)
            IN PyDict([k \in 1..Len(keys) |->
                         [key |-> keys[k],
                          value |-> RefValue(LastOccurrence(d.members, keys[k]).value)]])

RECURSIVE HasExponent(_)
HasExponent(d) ==
    CASE d.t = "number" -> \E k \in 1..Len(d.lexeme) : d.lexeme[k] \in {"e", "E"}
      [] d.t = "string" -> FALSE
      [] d.t = "array" -> \E k \in 1..Len(d.items) : HasExponent(d.items[k])
      [] d.t = "object" -> \E k \in 1..Len(d.members) : HasExponent(d.members[k].value)

\* the whitespace run stands between a key's closing quote and its colon
GapBeforeColon(d) ==
    /\ d.gap.after > 0
    /\ Pieces(d.tree)[d.gap.after + 1] = <<":">>

\* both returned the same value, or both raised
SameOutcome(a, b) ==
    \/ a.kind = "return" /\ b.kind = "return" /\ a.value = b.value
    \/ a.kind = "raise" /\ b.kind = "raise"

RECURSIVE DigitsValue(_)
DigitsValue(ds) ==
    IF ds = <<>> THEN 0
    ELSE 10 * DigitsValue(SubSeq(ds, 1, Len(ds) - 1)) + IntOf(ds[Len(ds)])

\* sign * integer * 10^exponent of a number text without a negative exponent
RefNumber(d) ==
    LET v == Normalize(DigitsValue(d.int), DigitsValue(d.exp))
    IN [m |-> IF d.neg THEN -v.m ELSE v.m, x |-> v.x]

AllSpace(t) == \A k \in 1..Len(t) : t[k] \in {SPACE, TAB, NL}

\* the first offset from k on that holds no digit 0-9
RECURSIVE SkipDigits(_, _)
SkipDigits(t, k) ==
    IF k < Len(t) /\ At(t, k) \in AsciiDigits THEN SkipDigits(t, k + 1) ELSE k

\* The text starts with a number whose exponent marker lacks its digits:
\* [-] digits [. digits] (e|E) [+|-] and then no digit.  The offset after
\* the optional exponent sign, or -1 when the text is not of that shape.
BadExponentAt(t) ==
    LET p0 == IF t # <<>> /\ At(t, 0) = "-" THEN 1 ELSE 0
        p1 == SkipDigits(t, p0)
        p2 == IF p1 < Len(t) /\ At(t, p1) = "." THEN SkipDigits(t, p1 + 1) ELSE p1
        p3 == p2 + 1
        p4 == IF p3 < Len(t) /\ At(t, p3) \in {"+", "-"} THEN p3 + 1 ELSE p3
    IN IF /\ p1 > p0
          /\ p2 < Len(t)
          /\ At(t, p2) \in {"e", "E"}
          /\ (p4 >= Len(t) \/ At(t, p4) \notin AsciiDigits)
       THEN p4 ELSE -1

IsHexDigit(c) == c \in AsciiDigits \cup HexLetters

\* The string whose opening quote precedes offset k: the offset of its
\* closing quote, or -1 when it is ill-formed (a bad escape, a \u without
\* four hex digits, a control character, no closing quote).
RECURSIVE StringClose(_, _)
StringClose(t, k) ==
    IF k >= Len(t) THEN -1
    ELSE IF At(t, k) = QUOTE THEN k
    ELSE IF At(t, k) = BACKSLASH
    THEN IF k + 1 >= Len(t) THEN -1
         ELSE IF At(t, k + 1) \in {QUOTE, BACKSLASH, "/", "b", "f", "n", "r", "t"}
         THEN StringClose(t, k + 2)
         ELSE IF /\ At(t, k + 1) = "u"
                 /\ k + 5 < Len(t)
                 /\ \A j \in 2..5 : IsHexDigit(At(t, k + j))
         THEN StringClose(t, k + 6)
         ELSE -1
    ELSE IF At(t, k) \in {NL, TAB, "\r", "\f"} THEN -1
    ELSE StringClose(t, k + 1)

\* the newline characters of text[0:k]
RECURSIVE CountNewlines(_, _)
CountNewlines(t, k) ==
    IF k <= 0 THEN 0
    ELSE CountNewlines(t, k - 1) + (IF k <= Len(t) /\ t[k] = NL THEN 1 ELSE 0)

\* sign * (integer part, fraction added) * 10^exponent of a number lexeme
LexemeValue(l) ==
    LET e == IF l.exponent.esign = <<"-">> THEN -DigitsValue(l.exponent.exp)
             ELSE DigitsValue(l.exponent.exp)
        v == Normalize(DigitsValue(l.int \o l.frac), e - Len(l.frac))
    IN [m |-> IF l.neg THEN -v.m ELSE v.m, x |-> v.x]

\* the lexeme's value is a multiple of 10^-15
HasAtMost15Decimals(l) == LexemeValue(l).x >= -round_off_digit


\* the tags of class Tag
Tags == {"COMMA", "LEFT_BRACE", "RIGHT_BRACE", "LEFT_BRACKET", "RIGHT_BRACKET",
         "OBJECT_KEY", "LITERAL", "NUMBER", "BOOLEAN", "NULL"}

\* a token of the tag
TokenOfTag(tag) ==
    CASE tag = "NUMBER" -> Number([m |-> 1, x |-> 0])
      [] tag = "LITERAL" -> Literal(<<"s">>)
      [] tag = "OBJECT_KEY" -> ObjectKey(<<"k">>)
      [] tag = "BOOLEAN" -> Boolean(TRUE)
      [] OTHER -> Token(tag)

\* the tokens, each carrying its place in the list
Numbered(tokens) == [k \in 1..Len(tokens) |-> tokens[k] @@ ("place" :> k)]

\* the place of the token parse raises ParseError for (0: it raises none)
OffendingPlace(tokens) ==
    LET r == parse(Numbered(tokens))
    IN IF r.kind = "raise" /\ r.exc = "ParseError" THEN r.token.place ELSE 0

\* The tags parse accepts at place k after tokens[1..k-1]: with a token of
\* the tag there, parse does not raise ParseError for the token at k.
AcceptedAt(tokens, k) ==
    {tag \in Tags :
        OffendingPlace([tokens EXCEPT ![k] = TokenOfTag(tag)]) # k}

SetOf(seq) == {seq[k] : k \in 1..Len(seq)}

\* The offset after the number written from offset a on:
\* [-] digits [. digits] [(e|E) [+|-] digits]
NumberLexemeEnd(t, a) ==
    LET p0 == IF a < Len(t) /\ At(t, a) = "-" THEN a + 1 ELSE a
        p1 == SkipDigits(t, p0)
        p2 == IF p1 < Len(t) /\ At(t, p1) = "." THEN SkipDigits(t, p1 + 1) ELSE p1
        p3 == IF p2 < Len(t) /\ At(t, p2) \in {"e", "E"} THEN p2 + 1 ELSE p2
        p4 == IF p3 > p2 /\ p3 < Len(t) /\ At(t, p3) \in {"+", "-"}
              THEN p3 + 1 ELSE p3
    IN IF p1 = p0 THEN a
       ELSE IF p3 = p2 THEN p2
       ELSE SkipDigits(t, p4)

\* The offset after the lexeme of the token written at offset a, or a when
\* the text at a is not a lexeme of the token.
LexemeEnd(t, a, tok) ==
    CASE tok.tag = "NUMBER" ->
            IF At(t, a) = "-" /\ tok.value.m > 0 THEN a ELSE NumberLexemeEnd(t, a)
      [] tok.tag = "COMMA" -> IF At(t, a) = "," THEN a + 1 ELSE a
      [] tok.tag = "LEFT_BRACKET" -> IF At(t, a) = "[" THEN a + 1 ELSE a
      [] tok.tag = "RIGHT_BRACKET" -> IF At(t, a) = "]" THEN a + 1 ELSE a
      [] tok.tag = "LEFT_BRACE" -> IF At(t, a) = "{" THEN a + 1 ELSE a
      [] tok.tag = "RIGHT_BRACE" -> IF At(t, a) = "}" THEN a + 1 ELSE a
      [] tok.tag = "NULL" ->
            IF Slice(t, a, a + 4) = <<"n", "u", "l", "l">> THEN a + 4 ELSE a
      [] tok.tag = "BOOLEAN" ->
            IF Slice(t, a, a + 4) = <<"t", "r", "u", "e">> THEN a + 4
            ELSE IF Slice(t, a, a + 5) = <<"f", "a", "l", "s", "e">> THEN a + 5
            ELSE a
      [] tok.tag = "LITERAL" ->
            IF At(t, a) = QUOTE THEN StringClose(t, a + 1) + 1 ELSE a
      [] tok.tag = "OBJECT_KEY" ->
            IF At(t, a) = QUOTE THEN StringClose(t, a + 1) + 2 ELSE a

\* The characters text[a:b] that one iteration of lex went past are spent:
\* whitespace when it emitted nothing, and else the lexeme of the one token
\* emitted, with at most whitespace after it.
Accounted(t, a, b, emit) ==
    LET e == IF emit = <<>> THEN a ELSE LexemeEnd(t, a, emit[1])
    IN /\ Len(emit) <= 1
       /\ emit # <<>> => e > a
       /\ \A k \in e..(b - 1) : k < Len(t) => IsSpace(At(t, k))

----------------------------------------------------------------------------
(* Claims *)

\* C1: for every well-formed document whose top level is an array or an
\* object (numbers with an exponent and whitespace between tokens
\* included), load_json_string returns, and returns the value the document
\* denotes: array elements in source order, each object key once.
C1_WellFormedDocumentParses ==
    pc = "done" => outcome = Returned(RefValue(doc.tree))

\* C2: load_json_string returns a value or raises TokenError or ParseError,
\* and nothing else.
C2_OnlyTokenErrorOrParseError ==
    pc = "done" =>
        \/ outcome.kind = "return"
        \/ outcome.exc \in {"TokenError", "ParseError"}

\* C3: a key separated from its colon by whitespace is lexed as an object
\* key, and the document parses to the object it denotes (documents
\* without exponent numbers).
C3_KeyThenWhitespaceThenColon ==
    (pc = "done" /\ GapBeforeColon(doc) /\ ~HasExponent(doc.tree)) =>
        /\ outcome.kind = "return"
        /\ outcome.value = RefValue(doc.tree)
        /\ \E k \in 1..Len(token_list) : token_list[k].tag = "OBJECT_KEY"

\* C4: a run of whitespace between two adjacent tokens does not change the
\* outcome: the same value as for the text without the run, or a failure
\* in both cases.
C4_WhitespaceInsensitive ==
    pc = "done" =>
        SameOutcome(outcome, load_json_string(DocText(doc.tree, NoGap)))

\* C5 as claimed: load_json_string applied to a text that is a single
\* number (no negative exponent) returns the number's value.
C5_NumberTextReturnsValue ==
    (pc = "done" /\ doc.esign # <<"-">>) =>
        outcome = Returned(PyNumber(RefNumber(doc)))

\* C5 as amended: for a text that is a single number (no negative
\* exponent) lex returns exactly one Number token, whose value is sign *
\* integer * 10^exponent (marker in either case, a + sign ignored), and
\* load_json_string raises ParseError for that token, expecting
\* LEFT_BRACKET or LEFT_BRACE.
C5_NumberLexedThenRejected ==
    doc.esign # <<"-">> =>
        /\ pc \in {"parse", "done"} => token_list = <<Number(RefNumber(doc))>>
        /\ pc = "done" =>
             outcome = RaiseParseError(Number(RefNumber(doc)),
                                       <<"LEFT_BRACKET", "LEFT_BRACE">>)

C5_Witness ==
    /\ pc = "done"
    /\ text = <<"1", "E", "+", "2">>
    /\ token_list = <<Number([m |-> 1, x |-> 2])>>
    /\ outcome.kind = "raise"
    /\ outcome.exc = "ParseError"

\* C6: an object with a repeated key yields a mapping that holds each key
\* once, in the order of first appearance, bound to the value of the key's
\* last occurrence.
C6_DuplicateKeyLastWins ==
    pc = "done" =>
        /\ outcome.kind = "return"
        /\ outcome.value.type = "dict"
        /\ LET items == outcome.value.items
               members == doc.tree.members
           IN /\ [k \in 1..Len(items) |-> items[k].key] = FirstKeys(members, 1)
              /\ \A k \in 1..Len(items) :
                    items[k].value =
                        RefValue(LastOccurrence(members, items[k].key).value)

\* {"a":1,"b":1,"a":2} yields {"a": 2, "b": 1}
C6_Witness ==
    /\ pc = "done"
    /\ doc.tree.members = <<[key |-> <<"a">>, value |-> One],
                            [key |-> <<"b">>, value |-> One],
                            [key |-> <<"a">>, value |-> Two]>>
    /\ outcome = Returned(PyDict(
           <<[key |-> <<"a">>, value |-> PyNumber([m |-> 2, x |-> 0])],
             [key |-> <<"b">>, value |-> PyNumber([m |-> 1, x |-> 0])]>>))

\* C7: for an empty or whitespace-only text lex emits no token and
\* load_json_string returns None.
C7_BlankTextIsNone ==
    AllSpace(text) =>
        /\ token_list = <<>>
        /\ pc = "done" => outcome = Returned(PyNone)

C7_Witness ==
    /\ pc = "done"
    /\ text = <<SPACE, NL, TAB>>
    /\ token_list = <<>>
    /\ outcome = Returned(PyNone)

\* C8: an exponent marker not followed by an optional sign and a digit
\* makes lex raise TokenError; when the text ends there, the error's
\* character is the last character of the text.
C8_BadExponentRaisesTokenError ==
    (pc = "done" /\ BadExponentAt(text) # -1) =>
        /\ outcome.kind = "raise"
        /\ outcome.exc = "TokenError"
        /\ BadExponentAt(text) >= Len(text) => outcome.character = text[Len(text)]

\* C9: an ill-formed quoted string (a bad escape, a \u without four hex
\* digits, a control character in the quotes, no closing quote) makes lex
\* raise TokenError, and no token is emitted for it.
C9_IllFormedStringRaisesTokenError ==
    (pc = "done" /\ text[1] = QUOTE /\ StringClose(text, 1) = -1) =>
        /\ outcome.kind = "raise"
        /\ outcome.exc = "TokenError"
        /\ token_list = <<>>

\* C10: a TokenError's line_number is 1 plus the number of newlines of the
\* text before the position of the error: the offset at which it was
\* raised, or else the offset of the character it reports (texts that do
\* not start with a number whose exponent lacks its digits).
C10_LineNumberCountsNewlines ==
    (/\ pc = "done"
     /\ outcome.kind = "raise"
     /\ outcome.exc = "TokenError"
     /\ BadExponentAt(text) = -1) =>
        \/ outcome.line_number = 1 + CountNewlines(text, outcome.at)
        \/ outcome.line_number = 1 + CountNewlines(text, outcome.character_at)

\* C11: for a text of number lexemes separated by whitespace, lex returns
\* exactly one Number token per lexeme, in source order, and the value of
\* each is sign * (integer part, fraction added) * 10^exponent.
C11_OneNumberPerLexeme ==
    pc # "lex" =>
        token_list = [k \in 1..Len(doc.lexemes) |->
                        Number(LexemeValue(doc.lexemes[k]))]

\* C12: for a well-formed quoted string lex emits one token whose payload
\* is exactly the source text between the opening and the closing quote,
\* escape pairs and \u escapes copied as written and an escaped quote not
\* ending the string: an ObjectKey when a colon follows the closing quote,
\* a Literal otherwise.
C12_PayloadIsRawText ==
    (pc # "lex" \/ i > 0) =>
        /\ token_list # <<>>
        /\ token_list[1] = IF doc.suffix = <<":">>
                           THEN ObjectKey(Flatten(doc.items))
                           ELSE Literal(Flatten(doc.items))
        /\ pc # "lex" => Len(token_list) = IF doc.suffix = <<",">> THEN 2 ELSE 1

\* the text "\"\u0F9a\n": lexed to an ObjectKey of ten characters
C12_Witness ==
    /\ pc = "parse"
    /\ doc.items = <<<<BACKSLASH, QUOTE>>,
                     <<BACKSLASH, "u", "0", "F", "9", "a">>,
                     <<BACKSLASH, "n">>>>
    /\ doc.suffix = <<":">>
    /\ token_list = <<ObjectKey(<<BACKSLASH, QUOTE, BACKSLASH, "u", "0", "F",
                                  "9", "a", BACKSLASH, "n">>)>>

\* C13: when the text at the offset of a t, f or n is not exactly true,
\* false or null (too short, or a character replaced), lex raises
\* TokenError, and the error's character is that t, f or n.
C13_MismatchReportsCurrentCharacter ==
    (pc = "done" /\ doc.body \notin Keywords) =>
        /\ outcome.kind = "raise"
        /\ outcome.exc = "TokenError"
        /\ outcome.character = At(text, Len(doc.prefix))

\* C14: a ParseError carries the token parse stopped at and, as expected,
\* exactly the tags parse accepts at that place of the token list (places
\* directly after an opening bracket or brace, where the closing one is
\* accepted too, left aside).
C14_ExpectedIsAcceptedSet ==
    LET k == OffendingPlace(token_list)
    IN (/\ pc = "done"
        /\ outcome.kind = "raise"
        /\ outcome.exc = "ParseError"
        /\ k > 1 => token_list[k - 1].tag \notin {"LEFT_BRACKET", "LEFT_BRACE"}) =>
            /\ outcome.token = token_list[k]
            /\ SetOf(outcome.expected) = AcceptedAt(token_list, k)

\* C15: when the token list starts with the tokens of a complete array or
\* object, parse returns the value of that structure whatever tokens
\* follow it: the same result as for the structure's tokens alone.
C15_TrailingTokensIgnored ==
    LET alone == lex(DocText(doc.tree, NoGap)).value
    IN /\ pc # "lex" =>
            /\ Len(token_list) >= Len(alone)
            /\ SubSeq(token_list, 1, Len(alone)) = alone
       /\ pc = "done" =>
            /\ outcome = ParseOutcome(alone)
            /\ outcome = Returned(RefValue(doc.tree))

\* [1] followed by ] , { : six tokens, and parse returns [1]
C15_Witness ==
    /\ pc = "done"
    /\ doc.tree = ArrDoc(<<One>>)
    /\ doc.trailing = <<<<"]">>, <<",">>, <<"{">>>>
    /\ Len(token_list) = 6
    /\ token_list[6] = Token("LEFT_BRACE")
    /\ outcome = Returned(PyList(<<PyNumber([m |-> 1, x |-> 0])>>))

\* C16: lex never goes past a character that is not whitespace without
\* emitting the token it belongs to: the characters one iteration consumes
\* are whitespace, or the lexeme of the token the iteration emits (a - being
\* the sign of a Number token), with at most whitespace after it.
C16_NoCharacterDropped ==
    [][(pc = "lex" /\ pc' = "lex") =>
          Accounted(text, i, i',
                    SubSeq(token_list', Len(token_list) + 1, Len(token_list')))]_vars

====
